---- MODULE Spec2Model ----
(***************************************************************************)
(* RUMSpeedIndex (src/src/rum-speedindex.js): one call of the function,     *)
(* stage by stage, against a host snapshot (DOM elements, computed styles,  *)
(* viewport, Navigation Timing, Resource Timing, chrome.loadTimes).         *)
(*                                                                          *)
(* Numbers.  Times are integers (ms; chrome.loadTimes values are seconds).  *)
(* A JavaScript value that is a number or undefined is the record Num(n)    *)
(* or Undefined.  Paint areas inside CalculateVisualProgress are held in    *)
(* units of 1/AreaScale px^2 so that pageBackgroundWeight = 0.1 is exact;   *)
(* a progress fraction and the SpeedIndex are exact rationals num/den.      *)
(* Floating-point rounding is not modelled.                                 *)
(***************************************************************************)
EXTENDS Integers, Sequences, FiniteSets, TLC

\* host: the snapshot the call reads (never written); pc: the statement of
\* the main flow that runs next; caught: the catch block of the main flow ran;
\* returned: the value the call gave back, once pc = "done"
VARIABLES host, pc, caught, navStart, rects, firstPaint, progress, SpeedIndex, returned

vars == <<host, pc, caught, navStart, rects, firstPaint, progress, SpeedIndex, returned>>

-----------------------------------------------------------------------------
(* JavaScript values *)

Undefined == [t |-> "undefined"]
Num(n) == [t |-> "number", v |-> n]
Rat(n, d) == [t |-> "number", num |-> n, den |-> d]
IsNum(x) == x.t = "number"

Max(a, b) == IF a >= b THEN a ELSE b
Min(a, b) == IF a <= b THEN a ELSE b

\* x || y on numbers: 0 is falsy
OrElse(x, y) == IF x # 0 THEN x ELSE y

-----------------------------------------------------------------------------
(* Program constants *)

\* pageBackgroundWeight = 0.1 is 1/AreaScale
AreaScale == 10
pageBackgroundWeight == 1
\* (firstPaintTime - startTime) * 1000.0
MsPerSecond == 1000

-----------------------------------------------------------------------------
(* GetElementViewportRect: the visible part of el, or Undefined (false) *)

ViewportHeight(h) == OrElse(h.innerHeight, h.clientHeight)
ViewportWidth(h) == OrElse(h.innerWidth, h.clientWidth)

Intersect(h, el) ==
  [top |-> Max(el.top, 0),
   left |-> Max(el.left, 0),
   bottom |-> Min(el.bottom, ViewportHeight(h)),
   right |-> Min(el.right, ViewportWidth(h))]

GetElementViewportRect(h, el) ==
  LET intersect == Intersect(h, el) IN
  IF intersect.bottom <= intersect.top \/ intersect.right <= intersect.left
  THEN Undefined
  ELSE [t |-> "rect", top |-> intersect.top, left |-> intersect.left,
        bottom |-> intersect.bottom, right |-> intersect.right,
        area |-> (intersect.bottom - intersect.top) * (intersect.right - intersect.left)]

\* CheckElement: push a rect for el when url is truthy and el is visible
CheckElement(h, rs, el, url) ==
  IF url # ""
  THEN LET rect == GetElementViewportRect(h, el) IN
       IF rect.t = "rect"
       THEN Append(rs, [url |-> url, area |-> rect.area, rect |-> rect, tm |-> 0])
       ELSE rs
  ELSE rs

-----------------------------------------------------------------------------
(* The regular expression of GetRects (the text url, an opening bracket,   *)
(* a captured group starting with http, a closing bracket; flags i and g)   *)
(* and its exec.                                                            *)
(* A computed background-image is a sequence of symbols: "x" is text the    *)
(* pattern cannot match (none, a gradient name, url(data:...)), any other   *)
(* symbol u is the text url(u) with u an absolute http URL.  The object is  *)
(* global (flag g): exec searches from lastIndex, leaves lastIndex at the   *)
(* end of the match, and resets it to 0 when nothing matches.               *)

IsUrlSymbol(s) == s # "x"

MatchPositions(text, lastIndex) ==
  {i \in (lastIndex + 1)..Len(text) : IsUrlSymbol(text[i])}

ReExec(text, lastIndex) ==
  LET found == MatchPositions(text, lastIndex) IN
  IF found = {}
  THEN [matched |-> FALSE, url |-> "", lastIndex |-> 0]
  ELSE LET i == CHOOSE k \in found : \A j \in found : k <= j IN
       [matched |-> TRUE, url |-> text[i], lastIndex |-> i]

-----------------------------------------------------------------------------
(* GetRects: walk the elements once; the regular expression object is       *)
(* created once, before the loop, and shared by all iterations.             *)

RECURSIVE GetRectsFrom(_, _, _, _)
GetRectsFrom(h, i, lastIndex, rs) ==
  IF i > Len(h.elements) THEN rs
  ELSE LET el == h.elements[i]
           afterImg == IF el.tagName = "IMG" THEN CheckElement(h, rs, el, el.src) ELSE rs
       IN IF Len(el.backgroundImage) > 0
          THEN LET matches == ReExec(el.backgroundImage, lastIndex) IN
               GetRectsFrom(h, i + 1, matches.lastIndex,
                            IF matches.matched
                            THEN CheckElement(h, afterImg, el, matches.url)
                            ELSE afterImg)
          ELSE GetRectsFrom(h, i + 1, lastIndex, afterImg)

GetRectsResult(h) == GetRectsFrom(h, 1, 0, <<>>)

-----------------------------------------------------------------------------
(* GetRectTimings: timings[name] = responseEnd, later entries overwrite     *)

HasTiming(requests, url) == \E k \in 1..Len(requests) : requests[k].name = url

TimingOf(requests, url) ==
  LET last == CHOOSE k \in 1..Len(requests) :
                /\ requests[k].name = url
                /\ \A j \in 1..Len(requests) : requests[j].name = url => j <= k
  IN requests[last].responseEnd

RectTimingsResult(h, rs) ==
  [i \in 1..Len(rs) |->
     [rs[i] EXCEPT !.tm = IF HasTiming(h.requests, rs[i].url)
                          THEN TimingOf(h.requests, rs[i].url) ELSE 0]]

-----------------------------------------------------------------------------
(* GetFirstPaint *)

Truthy(x) == IsNum(x) /\ x.v # 0

\* faulty variant: the subtraction the other way round
NativeFirstPaint_Reversed(h, nav) ==
  IF Truthy(h.timing.msFirstPaint)
  THEN Num(nav - h.timing.msFirstPaint.v)
  ELSE Undefined

\* line 122-123: the browser's own first paint event
NativeFirstPaint(h, nav) ==
  IF Truthy(h.timing.msFirstPaint)
  THEN Num(h.timing.msFirstPaint.v - nav)
  ELSE Undefined

\* faulty variant: startLoadTime kept when it is defined
VendorStartTime_StartLoadFirst(chromeTimes) ==
  IF IsNum(chromeTimes.startLoadTime)
  THEN chromeTimes.startLoadTime
  ELSE chromeTimes.requestTime

\* line 127-129: the reference point the vendor first paint is measured from
VendorStartTime(chromeTimes) ==
  IF Truthy(chromeTimes.requestTime)
  THEN chromeTimes.requestTime
  ELSE chromeTimes.startLoadTime

\* line 124-133: chrome.loadTimes() overrides what was found so far
VendorFirstPaint(h, fp) ==
  IF h.chrome.present
  THEN LET chromeTimes == h.chrome.loadTimes
           startTime == VendorStartTime(chromeTimes)
       IN IF /\ IsNum(chromeTimes.firstPaintTime)
             /\ chromeTimes.firstPaintTime.v > 0
             /\ IsNum(startTime)
             /\ chromeTimes.firstPaintTime.v >= startTime.v
          THEN Num((chromeTimes.firstPaintTime.v - startTime.v) * MsPerSecond)
          ELSE fp
  ELSE fp

\* line 138-146: the URLs of the head's blocking scripts and stylesheets
HeadURLs(head) ==
  {head[i].src : i \in {k \in 1..Len(head) :
       head[k].tagName = "SCRIPT" /\ head[k].src # "" /\ ~head[k].async}}
  \cup
  {head[i].href : i \in {k \in 1..Len(head) :
       head[k].tagName = "LINK" /\ head[k].rel = "stylesheet" /\ head[k].href # ""}}

IsCritical(headURLs, request) ==
  /\ request.name \in headURLs
  /\ request.initiatorType \in {"script", "link"}

\* line 148-159: the loop over the resource entries
RECURSIVE ScanRequests(_, _, _, _, _)
ScanRequests(requests, headURLs, i, doneCritical, fp) ==
  IF i > Len(requests) THEN fp
  ELSE IF ~doneCritical /\ IsCritical(headURLs, requests[i])
       THEN ScanRequests(requests, headURLs, i + 1, doneCritical,
                         IF requests[i].responseEnd > fp
                         THEN requests[i].responseEnd ELSE fp)
       ELSE ScanRequests(requests, headURLs, i + 1, TRUE, fp)

\* faulty variant: responseStart taken as it is, not relative to navigationStart
FallbackStart_NotRelative(h, nav) == h.timing.responseStart

\* line 137: the first candidate of the fallback
FallbackStart(h, nav) == h.timing.responseStart - nav

\* faulty variant: doneCritical is never set, every matching record counts
RECURSIVE ScanAllRequests(_, _, _, _)
ScanAllRequests(requests, headURLs, i, fp) ==
  IF i > Len(requests) THEN fp
  ELSE ScanAllRequests(requests, headURLs, i + 1,
                       IF IsCritical(headURLs, requests[i]) /\ requests[i].responseEnd > fp
                       THEN requests[i].responseEnd ELSE fp)

HeadFallback_NoStop(h, nav) ==
  Num(ScanAllRequests(h.requests, HeadURLs(h.head), 1, h.timing.responseStart - nav))

\* line 136-160, reached with firstPaint undefined and a head element
HeadFallback(h, nav) ==
  Num(ScanRequests(h.requests, HeadURLs(h.head), 1, FALSE, FallbackStart(h, nav)))

\* threw: document.getElementsByTagName('head')[0] is undefined at line 139
GetFirstPaintResult(h, nav) ==
  LET fp == VendorFirstPaint(h, NativeFirstPaint(h, nav)) IN
  IF IsNum(fp) THEN [threw |-> FALSE, firstPaint |-> fp]
  ELSE IF ~h.hasHead THEN [threw |-> TRUE, firstPaint |-> Num(FallbackStart(h, nav))]
  ELSE [threw |-> FALSE, firstPaint |-> HeadFallback(h, nav)]

-----------------------------------------------------------------------------
(* CalculateVisualProgress.  fp is the number firstPaint holds.             *)

EffectiveTime(r, fp) == IF r.tm # 0 /\ r.tm > fp THEN r.tm ELSE fp

AddPaint(paints, tm, area) ==
  IF tm \in DOMAIN paints
  THEN [paints EXCEPT ![tm] = @ + area]
  ELSE paints @@ (tm :> area)

\* line 166-176: paints and total after the loop over rects
RECURSIVE PaintRects(_, _, _, _)
PaintRects(rs, fp, i, acc) ==
  IF i > Len(rs) THEN acc
  ELSE PaintRects(rs, fp, i + 1,
         [paints |-> AddPaint(acc.paints, EffectiveTime(rs[i], fp), rs[i].area * AreaScale),
          total |-> acc.total + rs[i].area * AreaScale])

\* line 179-180
Pixels(h) ==
  Max(h.clientWidth, OrElse(h.innerWidth, 0)) * Max(h.clientHeight, OrElse(h.innerHeight, 0))

\* faulty variant: the background is painted at time 0, not at firstPaint
PaintBackground_AtZero(h, fp, acc) ==
  IF Pixels(h) > 0
  THEN LET pixels == (Max(Pixels(h) * AreaScale - acc.total, 0) * pageBackgroundWeight)
                       \div AreaScale
       IN [paints |-> AddPaint(acc.paints, 0, pixels), total |-> acc.total + pixels]
  ELSE acc

\* line 181-187: the page background, 10% of the pixels no rect covers
PaintBackground(h, fp, acc) ==
  IF Pixels(h) > 0
  THEN LET pixels == (Max(Pixels(h) * AreaScale - acc.total, 0) * pageBackgroundWeight)
                       \div AreaScale
       IN [paints |-> AddPaint(acc.paints, fp, pixels), total |-> acc.total + pixels]
  ELSE acc

RECURSIVE SortedTimes(_)
SortedTimes(S) ==
  IF S = {} THEN <<>>
  ELSE LET m == CHOOSE x \in S : \A y \in S : x <= y
       IN <<m>> \o SortedTimes(S \ {m})

\* faulty variant: the comparator the other way round, b.tm - a.tm
RECURSIVE ReverseSortedTimes(_)
ReverseSortedTimes(S) ==
  IF S = {} THEN <<>>
  ELSE LET m == CHOOSE x \in S : \A y \in S : x >= y
       IN <<m>> \o ReverseSortedTimes(S \ {m})

SortProgress_Descending(paints) == ReverseSortedTimes(DOMAIN paints)

\* line 190-192: the keys of paints, then
\* progress.sort(function(a,b){return a.tm - b.tm;})
SortProgress(paints) == SortedTimes(DOMAIN paints)

\* line 193-197
RECURSIVE Accumulate(_, _, _, _, _)
Accumulate(times, paints, total, i, accumulated) ==
  IF i > Len(times) THEN <<>>
  ELSE LET now == accumulated + paints[times[i]]
       IN <<[tm |-> times[i], area |-> paints[times[i]], progress |-> Rat(now, total)]>>
          \o Accumulate(times, paints, total, i + 1, now)

VisualProgress(h, rs, fp) ==
  LET acc == PaintBackground(h, fp, PaintRects(rs, fp, 1, [paints |-> (0 :> 0), total |-> 0]))
  IN IF acc.total # 0
     THEN Accumulate(SortProgress(acc.paints), acc.paints, acc.total, 1, 0)
     ELSE <<>>

-----------------------------------------------------------------------------
(* CalculateSpeedIndex.  The progress fractions share one denominator, the  *)
(* total; the index is accumulated over that denominator.                   *)

\* line 207-213: one iteration adds (1 - lastProgress) * elapsed
RECURSIVE Integrate(_, _, _, _, _)
Integrate(prog, i, lastTime, lastProgress, index) ==
  IF i > Len(prog) THEN index
  ELSE LET elapsed == prog[i].tm - lastTime
           den == prog[i].progress.den
       IN Integrate(prog, i + 1, prog[i].tm, prog[i].progress.num,
                    IF elapsed > 0 /\ lastProgress < den
                    THEN index + (den - lastProgress) * elapsed
                    ELSE index)

\* faulty variant: each interval is weighted by the progress at its end
RECURSIVE IntegrateCurrent(_, _, _, _)
IntegrateCurrent(prog, i, lastTime, index) ==
  IF i > Len(prog) THEN index
  ELSE LET elapsed == prog[i].tm - lastTime
           den == prog[i].progress.den
       IN IntegrateCurrent(prog, i + 1, prog[i].tm,
                           IF elapsed > 0 /\ prog[i].progress.num < den
                           THEN index + (den - prog[i].progress.num) * elapsed
                           ELSE index)

SpeedIndexOf_CurrentProgress(prog, fp) ==
  IF Len(prog) > 0
  THEN Rat(IntegrateCurrent(prog, 1, 0, 0), prog[1].progress.den)
  ELSE IF IsNum(fp) THEN Rat(fp.v, 1) ELSE Undefined

\* line 202-217
SpeedIndexOf(prog, fp) ==
  IF Len(prog) > 0
  THEN Rat(Integrate(prog, 1, 0, 0, 0), prog[1].progress.den)
  ELSE IF IsNum(fp) THEN Rat(fp.v, 1) ELSE Undefined

-----------------------------------------------------------------------------
(* Main flow, line 222-248.  An exception in a stage leaves the try block:  *)
(* the catch block is empty and the return statement follows.               *)

\* line 228: window.performance.timing['navigationStart']
Start ==
  /\ pc = "start"
  /\ IF host.hasTiming
     THEN /\ navStart' = Num(host.timing.navigationStart)
          /\ pc' = "GetRects"
          /\ UNCHANGED caught
     ELSE /\ pc' = "return"
          /\ caught' = TRUE
          /\ UNCHANGED navStart
  /\ UNCHANGED <<host, rects, firstPaint, progress, SpeedIndex, returned>>

\* line 229; window.getComputedStyle is called for the first element
GetRects ==
  /\ pc = "GetRects"
  /\ IF Len(host.elements) > 0 /\ ~host.hasGetComputedStyle
     THEN /\ pc' = "return"
          /\ caught' = TRUE
          /\ UNCHANGED rects
     ELSE /\ rects' = GetRectsResult(host)
          /\ pc' = "GetRectTimings"
          /\ UNCHANGED caught
  /\ UNCHANGED <<host, navStart, firstPaint, progress, SpeedIndex, returned>>

\* line 230; window.performance.getEntriesByType("resource")
GetRectTimings ==
  /\ pc = "GetRectTimings"
  /\ IF ~host.hasResourceTiming
     THEN /\ pc' = "return"
          /\ caught' = TRUE
          /\ UNCHANGED rects
     ELSE /\ rects' = RectTimingsResult(host, rects)
          /\ pc' = "GetFirstPaint"
          /\ UNCHANGED caught
  /\ UNCHANGED <<host, navStart, firstPaint, progress, SpeedIndex, returned>>

\* line 231
GetFirstPaint ==
  /\ pc = "GetFirstPaint"
  /\ LET res == GetFirstPaintResult(host, navStart.v) IN
     /\ firstPaint' = res.firstPaint
     /\ pc' = IF res.threw THEN "return" ELSE "CalculateVisualProgress"
     /\ caught' = (caught \/ res.threw)
  /\ UNCHANGED <<host, navStart, rects, progress, SpeedIndex, returned>>

\* line 232
CalculateVisualProgress ==
  /\ pc = "CalculateVisualProgress"
  /\ progress' = VisualProgress(host, rects, firstPaint.v)
  /\ pc' = "CalculateSpeedIndex"
  /\ UNCHANGED <<host, caught, navStart, rects, firstPaint, SpeedIndex, returned>>

\* line 233
CalculateSpeedIndex ==
  /\ pc = "CalculateSpeedIndex"
  /\ SpeedIndex' = SpeedIndexOf(progress, firstPaint)
  /\ pc' = "return"
  /\ UNCHANGED <<host, caught, navStart, rects, firstPaint, progress, returned>>

\* line 248
Return ==
  /\ pc = "return"
  /\ returned' = SpeedIndex
  /\ pc' = "done"
  /\ UNCHANGED <<host, caught, navStart, rects, firstPaint, progress, SpeedIndex>>

Next ==
  \/ Start
  \/ GetRects
  \/ GetRectTimings
  \/ GetFirstPaint
  \/ CalculateVisualProgress
  \/ CalculateSpeedIndex
  \/ Return

\* faulty variant: var SpeedIndex = 0
InitCall_ZeroIndex ==
  /\ pc = "start"
  /\ caught = FALSE
  /\ navStart = Undefined
  /\ rects = <<>>
  /\ progress = <<>>
  /\ firstPaint = Undefined
  /\ SpeedIndex = Rat(0, 1)
  /\ returned = Undefined

\* line 222-226: the call's variables before the try block
InitCall ==
  /\ pc = "start"
  /\ caught = FALSE
  /\ navStart = Undefined
  /\ rects = <<>>
  /\ progress = <<>>
  /\ firstPaint = Undefined
  /\ SpeedIndex = Undefined
  /\ returned = Undefined

-----------------------------------------------------------------------------
(* Host snapshots.  What the browser guarantees is kept: responseStart and  *)
(* msFirstPaint are not before navigationStart, responseEnd is not          *)
(* negative, an element's box has bottom >= top and right >= left, a        *)
(* computed background-image holds at most one url(...).                    *)

MaxTime == 3
MaxSeconds == 2
MaxReq == 2
MaxElems == 2

SeqsUpTo(S, n) == UNION {[1..k -> S] : k \in 0..n}

NumOrUndefined(S) == {Undefined} \cup {Num(n) : n \in S}

NoChrome == [present |-> FALSE,
             loadTimes |-> [firstPaintTime |-> Undefined, startLoadTime |-> Undefined,
                            requestTime |-> Undefined]]

Chromes ==
  {NoChrome} \cup
  {[present |-> TRUE,
    loadTimes |-> [firstPaintTime |-> f, startLoadTime |-> s, requestTime |-> r]] :
     f \in NumOrUndefined(0..MaxSeconds),
     s \in NumOrUndefined(0..MaxSeconds),
     r \in NumOrUndefined(0..MaxSeconds)}

Script(url, async) ==
  [tagName |-> "SCRIPT", src |-> url, href |-> "", async |-> async, rel |-> ""]
Link(url, rel) ==
  [tagName |-> "LINK", src |-> "", href |-> url, async |-> FALSE, rel |-> rel]

Heads ==
  {<<>>,
   <<Script("a", FALSE)>>,
   <<Script("a", TRUE), Link("b", "stylesheet")>>,
   <<Script("a", FALSE), Link("b", "icon")>>,
   <<Script("a", FALSE), Link("b", "stylesheet"), Script("c", TRUE)>>}

Request(name, responseEnd, initiatorType) ==
  [name |-> name, responseEnd |-> responseEnd, initiatorType |-> initiatorType]

Requests ==
  {Request(k[1], t, k[2]) :
     k \in {<<"a", "script">>, <<"a", "img">>, <<"b", "link">>, <<"b", "img">>},
     t \in 1..MaxTime}

Element(tagName, src, backgroundImage, box) ==
  [tagName |-> tagName, src |-> src, backgroundImage |-> backgroundImage,
   top |-> box[1], left |-> box[2], bottom |-> box[3], right |-> box[4]]

\* <<top, left, bottom, right>>: inside the viewport, cut by its top and
\* bottom edges, and wholly above it
Boxes == {<<0, 0, 1, 1>>, <<-1, 1, 3, 2>>, <<-2, 0, 0, 1>>}

Elements ==
  {Element(k[1], k[2], bg, box) :
     k \in {<<"IMG", "a">>, <<"IMG", "">>, <<"DIV", "">>},
     bg \in {<<>>, <<"x">>, <<"b">>, <<"x", "b">>},
     box \in Boxes}

BaseHost ==
  [hasTiming |-> TRUE, hasGetComputedStyle |-> TRUE, hasResourceTiming |-> TRUE,
   hasHead |-> TRUE,
   timing |-> [navigationStart |-> 5, responseStart |-> 6, msFirstPaint |-> Undefined],
   chrome |-> NoChrome,
   head |-> <<Script("a", FALSE)>>,
   requests |-> <<Request("a", 2, "script")>>,
   elements |-> <<Element("IMG", "a", <<"x">>, <<0, 0, 1, 1>>)>>,
   innerWidth |-> 2, innerHeight |-> 2, clientWidth |-> 2, clientHeight |-> 2]

TimesFrom(t) == t..(t + MaxTime)

\* the first-paint signals of the browser and of the vendor
SignalHosts ==
  \E m \in {Num(0)} \cup NumOrUndefined(TimesFrom(BaseHost.timing.navigationStart)),
     c \in Chromes,
     hh \in BOOLEAN :
    host = [BaseHost EXCEPT !.timing.msFirstPaint = m, !.chrome = c, !.hasHead = hh]

\* no usable first-paint signal: the head and the resource entries decide
FallbackHosts ==
  \E rs \in TimesFrom(BaseHost.timing.navigationStart),
     hd \in Heads,
     rq \in SeqsUpTo(Requests, MaxReq) :
    host = [BaseHost EXCEPT !.timing.responseStart = rs, !.head = hd, !.requests = rq]

\* a matching record, any record, a matching record
RunHosts ==
  \E hd \in Heads, t1 \in 1..MaxTime, mid \in Requests, t3 \in 1..MaxTime :
    host = [BaseHost EXCEPT !.head = hd,
                            !.requests = <<Request("a", t1, "script"), mid,
                                           Request("a", t3, "script")>>]

\* the elements GetRects walks
RegionHosts ==
  \E els \in SeqsUpTo(Elements, MaxElems) :
    host = [BaseHost EXCEPT !.elements = els, !.timing.msFirstPaint = Num(6),
                            !.requests = <<Request("b", 3, "img")>>]

Img(src, box) == Element("IMG", src, <<"x">>, box)

ElementLists ==
  {<<>>,
   <<Img("a", <<0, 0, 1, 1>>)>>,
   <<Img("a", <<0, 0, 1, 1>>), Img("b", <<1, 0, 2, 2>>)>>,
   <<Img("a", <<0, 0, 2, 2>>), Img("b", <<0, 0, 2, 1>>), Img("a", <<0, 1, 1, 2>>)>>,
   <<Img("c", <<0, 0, 1, 2>>), Img("b", <<0, 0, 3, 3>>)>>}

\* <<innerWidth, innerHeight, clientWidth, clientHeight>>
Viewports == {<<0, 0, 0, 0>>, <<2, 2, 2, 2>>, <<0, 0, 3, 2>>, <<2, 1, 0, 0>>}

\* the paint times of the regions, the first paint and the viewport
ProgressHosts ==
  \E els \in ElementLists,
     ta \in 0..MaxTime, tb \in 0..MaxTime,
     m \in NumOrUndefined(TimesFrom(BaseHost.timing.navigationStart)),
     vp \in Viewports :
    host = [BaseHost EXCEPT !.elements = els,
                            !.requests = <<Request("a", ta, "img"), Request("b", tb, "img")>>,
                            !.timing.msFirstPaint = m,
                            !.innerWidth = vp[1], !.innerHeight = vp[2],
                            !.clientWidth = vp[3], !.clientHeight = vp[4]]

\* host interfaces that are missing
FailureHosts ==
  \E b \in {BaseHost,
            [BaseHost EXCEPT !.elements = <<>>],
            [BaseHost EXCEPT !.head = <<>>, !.requests = <<>>],
            [BaseHost EXCEPT !.timing.msFirstPaint = Num(7)]},
     f \in BOOLEAN \X BOOLEAN \X BOOLEAN \X BOOLEAN :
    host = [b EXCEPT !.hasTiming = f[1], !.hasGetComputedStyle = f[2],
                     !.hasResourceTiming = f[3], !.hasHead = f[4]]

\* spec.md, section 8: critical-chain fallback termination
CriticalChainExample ==
  [BaseHost EXCEPT
     !.timing.responseStart = 15,
     !.head = <<Script("a", FALSE), Link("b", "stylesheet"), Script("c", TRUE)>>,
     !.requests = <<Request("a", 120, "script"), Request("b", 150, "link"),
                    Request("c", 90, "script")>>]

\* spec.md, section 8: two-bucket integral
TwoBucketExample ==
  [BaseHost EXCEPT
     !.timing.msFirstPaint = Num(105),
     !.elements = <<Img("a", <<0, 0, 10, 5>>), Img("b", <<0, 5, 10, 10>>)>>,
     !.requests = <<Request("a", 100, "img"), Request("b", 300, "img")>>,
     !.innerWidth = 10, !.innerHeight = 10, !.clientWidth = 10, !.clientHeight = 10]

Hosts ==
  \/ SignalHosts
  \/ FallbackHosts
  \/ RunHosts
  \/ RegionHosts
  \/ ProgressHosts
  \/ FailureHosts
  \/ host \in {CriticalChainExample, TwoBucketExample}

Init == InitCall /\ Hosts

Spec == Init /\ [][Next]_vars

TypeOK ==
  /\ pc \in {"start", "GetRects", "GetRectTimings", "GetFirstPaint",
             "CalculateVisualProgress", "CalculateSpeedIndex", "return", "done"}
  /\ pc \in {"CalculateVisualProgress", "CalculateSpeedIndex"} => IsNum(firstPaint)
  /\ \A i \in 1..Len(rects) : rects[i].area > 0

-----------------------------------------------------------------------------
(* Vocabulary of the properties *)

\* GetFirstPaint ran to its end
FirstPaintDone ==
  \/ pc \in {"CalculateVisualProgress", "CalculateSpeedIndex"}
  \/ pc \in {"return", "done"} /\ ~caught

\* the call returned without entering the catch block
Completed == pc = "done" /\ ~caught

AllInterfaces(h) ==
  h.hasTiming /\ h.hasGetComputedStyle /\ h.hasResourceTiming /\ h.hasHead

HasNativeSignal(h) == Truthy(h.timing.msFirstPaint)

RelativeResponseStart(h) == h.timing.responseStart - h.timing.navigationStart

\* the vendor signal passes its checks against the reference point ref
VendorAccepted(h, ref) ==
  /\ h.chrome.present
  /\ IsNum(h.chrome.loadTimes.firstPaintTime)
  /\ h.chrome.loadTimes.firstPaintTime.v > 0
  /\ IsNum(ref)
  /\ h.chrome.loadTimes.firstPaintTime.v >= ref.v

VendorEstimate(h, ref) ==
  Num((h.chrome.loadTimes.firstPaintTime.v - ref.v) * MsPerSecond)

\* requestTime when it is available (defined and not 0), else startLoadTime
RequestTimeFirst(h) ==
  IF Truthy(h.chrome.loadTimes.requestTime)
  THEN h.chrome.loadTimes.requestTime
  ELSE h.chrome.loadTimes.startLoadTime

\* startLoadTime when it is available (defined), else requestTime
StartLoadTimeFirst(h) ==
  IF IsNum(h.chrome.loadTimes.startLoadTime)
  THEN h.chrome.loadTimes.startLoadTime
  ELSE h.chrome.loadTimes.requestTime

NoSignalAtAll(h) ==
  /\ ~HasNativeSignal(h)
  /\ ~VendorAccepted(h, RequestTimeFirst(h))
  /\ h.hasHead /\ h.head = <<>>
  /\ h.hasResourceTiming /\ h.requests = <<>>

\* the returned number equals the integer n
ReturnedIs(n) == IsNum(returned) /\ returned.num = n * returned.den

-----------------------------------------------------------------------------
(* C1 *)

\* C1 (as stated): with no native signal, no usable vendor signal, a head
\* without children and no resource entries, the call returns undefined.
C1_ReturnsUnavailable ==
  (pc = "done" /\ NoSignalAtAll(host)) => returned = Undefined

\* C1 (amended): in that case, with every host interface present, the first
\* paint estimate is responseStart - navigationStart and the call returns that
\* number, not undefined.
C1_ReturnsResponseStart ==
  (pc = "done" /\ NoSignalAtAll(host) /\ AllInterfaces(host))
    => /\ ~caught
       /\ firstPaint = Num(RelativeResponseStart(host))
       /\ ReturnedIs(RelativeResponseStart(host))

C1_Witness ==
  /\ pc = "done" /\ NoSignalAtAll(host) /\ AllInterfaces(host)
  /\ Len(rects) > 0
  /\ IsNum(returned) /\ returned.num > 0

-----------------------------------------------------------------------------
(* C2 *)

\* C2: whenever the native first-paint signal is present, the estimate is the
\* native signal relative to navigationStart, whatever the vendor bundle and
\* the resource entries hold.
C2_NativeSignalWins ==
  (FirstPaintDone /\ HasNativeSignal(host))
    => firstPaint = Num(host.timing.msFirstPaint.v - host.timing.navigationStart)

-----------------------------------------------------------------------------
(* C3 *)

InCriticalSet(h, url) ==
  \E i \in 1..Len(h.head) :
     \/ h.head[i].tagName = "SCRIPT" /\ ~h.head[i].async
          /\ h.head[i].src # "" /\ h.head[i].src = url
     \/ h.head[i].tagName = "LINK" /\ h.head[i].rel = "stylesheet"
          /\ h.head[i].href # "" /\ h.head[i].href = url

Matches(h, j) ==
  /\ InCriticalSet(h, h.requests[j].name)
  /\ h.requests[j].initiatorType \in {"script", "link"}

\* the records before the first one that does not match
LeadingRun(h) ==
  {j \in 1..Len(h.requests) : \A k \in 1..j : Matches(h, k)}

SetMax(S) == CHOOSE x \in S : \A y \in S : y <= x

HeadFallbackUsed(h) ==
  /\ ~HasNativeSignal(h)
  /\ ~VendorAccepted(h, RequestTimeFirst(h))
  /\ h.hasHead

\* C3: in the head-critical fallback the estimate is the maximum of
\* responseStart - navigationStart and the responseEnd of the leading run of
\* matching records; records from the first non-matching one on do not count.
\* The example of spec.md, section 8, gives 150.
C3_LeadingRunOnly ==
  (FirstPaintDone /\ HeadFallbackUsed(host))
    => /\ firstPaint =
            Num(SetMax({RelativeResponseStart(host)}
                       \cup {host.requests[j].responseEnd : j \in LeadingRun(host)}))
       /\ host = CriticalChainExample => firstPaint = Num(150)

\* a matching record after the run ended finished later than the estimate
C3_Witness ==
  /\ FirstPaintDone /\ HeadFallbackUsed(host)
  /\ LeadingRun(host) # {}
  /\ \E j \in 1..Len(host.requests) :
        /\ j \notin LeadingRun(host)
        /\ Matches(host, j)
        /\ host.requests[j].responseEnd > firstPaint.v
  /\ firstPaint.v > RelativeResponseStart(host)

-----------------------------------------------------------------------------
(* C4 *)

\* CalculateVisualProgress ran
ProgressDone ==
  \/ pc = "CalculateSpeedIndex"
  \/ pc \in {"return", "done"} /\ ~caught

RECURSIVE SumOver(_, _)
SumOver(S, f) ==
  IF S = {} THEN 0
  ELSE LET x == CHOOSE y \in S : TRUE IN f[x] + SumOver(S \ {x}, f)

\* the total of CalculateVisualProgress, in px^2: the areas of the rects
\* and a tenth of the pixels they leave uncovered
RectArea == SumOver(1..Len(rects), [i \in 1..Len(rects) |-> rects[i].area])

TotalTimesScale ==
  RectArea * AreaScale + (IF Pixels(host) > 0 THEN Max(Pixels(host) - RectArea, 0) ELSE 0)

\* C4: when total > 0 the progress points exist, are in ascending order of
\* time, their cumulative progress never decreases along that order, the last
\* one is 1, and the bucket areas add up to total.
C4_ProgressMonotone ==
  ProgressDone =>
    /\ (TotalTimesScale > 0) = (Len(progress) > 0)
    /\ \A i \in 1..Len(progress) :
         /\ progress[i].progress.den = TotalTimesScale
         /\ progress[i].progress.num >= 0
         /\ progress[i].progress.num <= progress[i].progress.den
    /\ \A i \in 1..(Len(progress) - 1) :
         /\ progress[i].tm < progress[i + 1].tm
         /\ progress[i].progress.num <= progress[i + 1].progress.num
    /\ Len(progress) > 0 =>
         /\ progress[Len(progress)].progress.num = progress[Len(progress)].progress.den
         /\ SumOver(1..Len(progress), [i \in 1..Len(progress) |-> progress[i].area])
              = TotalTimesScale

\* three buckets whose progress rises in two steps
C4_Witness ==
  /\ ProgressDone
  /\ Len(progress) >= 3
  /\ progress[1].progress.num < progress[2].progress.num
  /\ progress[2].progress.num < progress[3].progress.num

-----------------------------------------------------------------------------
(* C5 *)

PreviousTime(i) == IF i = 1 THEN 0 ELSE progress[i - 1].tm
PreviousProgress(i) == IF i = 1 THEN 0 ELSE progress[i - 1].progress.num

\* (time - previousTime) * (1 - previousProgress), times the common denominator
Term(i) ==
  IF progress[i].tm - PreviousTime(i) > 0 /\ PreviousProgress(i) < progress[i].progress.den
  THEN (progress[i].tm - PreviousTime(i)) * (progress[i].progress.den - PreviousProgress(i))
  ELSE 0

\* C5: for a non-empty progress sequence the returned SpeedIndex is the sum
\* over the points in order of (time - previousTime) * (1 - previousProgress),
\* from previousTime = 0 and previousProgress = 0, counting the terms with
\* positive elapsed time and previousProgress < 1.  The two-bucket example of
\* spec.md, section 8, gives 200.
C5_IntegralOfUnfinished ==
  (Completed /\ Len(progress) > 0)
    => /\ IsNum(returned)
       /\ returned.den = progress[1].progress.den
       /\ returned.num = SumOver(1..Len(progress), [i \in 1..Len(progress) |-> Term(i)])
       /\ host = TwoBucketExample => ReturnedIs(200)

\* the example itself: progress 0 at 0, 1/2 at 100, 1 at 300
C5_Witness ==
  /\ Completed
  /\ host = TwoBucketExample
  /\ Len(progress) = 3
  /\ progress[2].tm = 100 /\ progress[2].progress.num * 2 = progress[2].progress.den
  /\ progress[3].tm = 300
  /\ ReturnedIs(200)

-----------------------------------------------------------------------------
(* C6 *)

-----------------------------------------------------------------------------
(* C7 *)

\* an interface the call uses, with this host, is missing
MissingInterface(h) ==
  \/ ~h.hasTiming
  \/ ~h.hasGetComputedStyle /\ Len(h.elements) > 0
  \/ ~h.hasResourceTiming
  \/ ~h.hasHead /\ ~HasNativeSignal(h) /\ ~VendorAccepted(h, RequestTimeFirst(h))

\* C7: the call never throws: a stage that fails, or a host interface that
\* is missing, ends the call at its return statement with undefined; no
\* number is returned after a failure.
C7_FailureReturnsUndefined ==
  /\ caught => pc \in {"return", "done"} /\ SpeedIndex = Undefined
  /\ MissingInterface(host) /\ pc \in {"return", "done"} => caught
  /\ pc = "done" /\ (caught \/ MissingInterface(host)) => returned = Undefined

\* the head was missing after the regions and their timings were collected
C7_Witness ==
  /\ pc = "done" /\ caught
  /\ ~host.hasHead /\ host.hasTiming /\ host.hasResourceTiming
  /\ Len(rects) > 0
  /\ IsNum(firstPaint)
  /\ returned = Undefined

-----------------------------------------------------------------------------
(* C8 *)

-----------------------------------------------------------------------------
(* C9 *)

\* element i has a background-image with an absolute URL and is visible
BackgroundRegion(h, i) ==
  /\ \E k \in 1..Len(h.elements[i].backgroundImage) :
        IsUrlSymbol(h.elements[i].backgroundImage[k])
  /\ Intersect(h, h.elements[i]).bottom > Intersect(h, h.elements[i]).top
  /\ Intersect(h, h.elements[i]).right > Intersect(h, h.elements[i]).left

BackgroundURL(h, i) ==
  LET bg == h.elements[i].backgroundImage IN
  bg[CHOOSE k \in 1..Len(bg) : IsUrlSymbol(bg[k])]

SameRegion(r, h, i) ==
  /\ r.url = BackgroundURL(h, i)
  /\ r.rect.top = Intersect(h, h.elements[i]).top
  /\ r.rect.left = Intersect(h, h.elements[i]).left
  /\ r.rect.bottom = Intersect(h, h.elements[i]).bottom
  /\ r.rect.right = Intersect(h, h.elements[i]).right

RectsDone ==
  \/ pc \in {"GetRectTimings", "GetFirstPaint", "CalculateVisualProgress",
            "CalculateSpeedIndex"}
  \/ pc \in {"return", "done"} /\ ~caught

\* C9: GetRects emits a region for every visible element whose
\* background-image is an absolute URL, whatever was scanned before it: the
\* regions with an element's URL and clipped rectangle are at least as many
\* as the elements that carry that background and rectangle.
C9_EveryBackgroundRegion ==
  RectsDone =>
    \A i \in 1..Len(host.elements) :
       BackgroundRegion(host, i) =>
         Cardinality({k \in 1..Len(rects) : SameRegion(rects[k], host, i)})
           >= Cardinality({j \in 1..Len(host.elements) :
                  /\ BackgroundRegion(host, j)
                  /\ BackgroundURL(host, j) = BackgroundURL(host, i)
                  /\ Intersect(host, host.elements[j]) = Intersect(host, host.elements[i])})

-----------------------------------------------------------------------------
(* C10 *)

\* C10 (as stated): the vendor estimate is measured from startLoadTime
\* whenever startLoadTime is available, from requestTime only otherwise.
C10_StartLoadTimeFirst ==
  (FirstPaintDone /\ VendorAccepted(host, StartLoadTimeFirst(host)))
    => firstPaint = VendorEstimate(host, StartLoadTimeFirst(host))

\* C10 (amended): the vendor estimate is measured from requestTime whenever
\* requestTime is available (defined and not 0), from startLoadTime only
\* otherwise; the same reference point serves the at-or-after check.
C10_RequestTimeFirst ==
  FirstPaintDone =>
    /\ VendorAccepted(host, RequestTimeFirst(host))
         => firstPaint = VendorEstimate(host, RequestTimeFirst(host))
    /\ (~VendorAccepted(host, RequestTimeFirst(host)) /\ HasNativeSignal(host))
         => firstPaint = Num(host.timing.msFirstPaint.v - host.timing.navigationStart)

\* both reference points are available and differ
C10_Witness ==
  /\ FirstPaintDone
  /\ VendorAccepted(host, RequestTimeFirst(host))
  /\ Truthy(host.chrome.loadTimes.requestTime)
  /\ IsNum(host.chrome.loadTimes.startLoadTime)
  /\ host.chrome.loadTimes.startLoadTime # host.chrome.loadTimes.requestTime
  /\ VendorAccepted(host, host.chrome.loadTimes.startLoadTime)
  /\ firstPaint = VendorEstimate(host, host.chrome.loadTimes.requestTime)

====
